---- MODULE Spec2Model ----
(***************************************************************************)
(* Model of script.py: the invoice loader, the identifier resolver, the    *)
(* record flattener, the template engine and the document assembler of     *)
(* main().                                                                 *)
(*                                                                         *)
(* Representation.  A Python str is a sequence of one-character strings    *)
(* (two program literals that are never taken apart, the page-break <div>  *)
(* and the data-URI prefix, are kept as one element each).  A Python value *)
(* is a tagged record [t, v].  A Python dict is a sequence of <<key,       *)
(* value>> pairs with distinct keys, in insertion order.  A record object  *)
(* is named by its index in `records`, so that two names of one dict       *)
(* (the list, the InvoiceMap, records_to_render) share one object.         *)
(***************************************************************************)
EXTENDS Integers, Sequences, FiniteSets, TLC

VARIABLES pc, data, records, loaded, template_text, tpl_parts, invoice_key,
          invoice_map, built, invoice_ids, choice, chosen_id,
          records_to_render, idx, context, rendered_parts, rendered_html,
          log, error

vars == <<pc, data, records, loaded, template_text, tpl_parts, invoice_key,
          invoice_map, built, invoice_ids, choice, chosen_id,
          records_to_render, idx, context, rendered_parts, rendered_html,
          log, error>>

(***************************************************************************)
(* Bounds of the checked instances.                                        *)
(***************************************************************************)
MaxRecords == 3
MaxRootKeys == 2
MaxWidth == 2
MaxParts == 3

(***************************************************************************)
(* Python values.                                                          *)
(***************************************************************************)
S(chars) == [t |-> "str", v |-> chars]
I(n) == [t |-> "int", v |-> n]
PyNone == [t |-> "none", v |-> 0]
D(pairs) == [t |-> "dict", v |-> pairs]
L(items) == [t |-> "list", v |-> items]

IsDict(x) == x.t = "dict"
IsList(x) == x.t = "list"

\* bool(x)
Truthy(x) ==
  CASE x.t = "str" -> x.v # <<>>
    [] x.t = "int" -> x.v # 0
    [] x.t = "none" -> FALSE
    [] x.t = "dict" -> x.v # <<>>
    [] x.t = "list" -> x.v # <<>>

\* a or b
PyOr(a, b) == IF Truthy(a) THEN a ELSE b

DigitChars == <<"0","1","2","3","4","5","6","7","8","9">>
RECURSIVE Digits(_)
\* str(n) of an int
Digits(n) ==
  IF n < 0 THEN <<"-">> \o Digits(0 - n)
  ELSE IF n < 10 THEN <<DigitChars[n + 1]>>
  ELSE Digits(n \div 10) \o Digits(n % 10)

RECURSIVE Repr(_), ReprItems(_, _), ReprPairs(_, _)
\* repr(x): what str() shows for a value nested in a container
Repr(x) ==
  CASE x.t = "str" -> <<"'">> \o x.v \o <<"'">>
    [] x.t = "int" -> Digits(x.v)
    [] x.t = "none" -> <<"N", "o", "n", "e">>
    [] x.t = "dict" -> <<"{">> \o ReprPairs(x.v, 1) \o <<"}">>
    [] x.t = "list" -> <<"[">> \o ReprItems(x.v, 1) \o <<"]">>
ReprItems(items, i) ==
  IF i > Len(items) THEN <<>>
  ELSE Repr(items[i]) \o (IF i < Len(items) THEN <<",", " ">> ELSE <<>>) \o ReprItems(items, i + 1)
ReprPairs(pairs, i) ==
  IF i > Len(pairs) THEN <<>>
  ELSE <<"'">> \o pairs[i][1] \o <<"'", ":", " ">> \o Repr(pairs[i][2])
       \o (IF i < Len(pairs) THEN <<",", " ">> ELSE <<>>) \o ReprPairs(pairs, i + 1)

\* str(x)
Str(x) == IF x.t = "str" THEN x.v ELSE Repr(x)

(***************************************************************************)
(* Python dict operations on sequences of pairs.                           *)
(***************************************************************************)
DictKeys(d) == [i \in DOMAIN d |-> d[i][1]]
DictHas(d, k) == \E i \in DOMAIN d : d[i][1] = k
\* d.get(k, dflt)
DictGet(d, k, dflt) ==
  IF DictHas(d, k) THEN d[CHOOSE i \in DOMAIN d : d[i][1] = k][2] ELSE dflt
\* d[k] = x : an existing key keeps its position, a new key is appended
DictPut(d, k, x) ==
  IF DictHas(d, k) THEN [i \in DOMAIN d |-> IF d[i][1] = k THEN <<k, x>> ELSE d[i]]
  ELSE Append(d, <<k, x>>)
RECURSIVE DictUpdate(_, _)
\* d.update(e)
DictUpdate(d, e) ==
  IF e = <<>> THEN d ELSE DictUpdate(DictPut(d, Head(e)[1], Head(e)[2]), Tail(e))

(***************************************************************************)
(* str.lower                                                               *)
(***************************************************************************)
UpperChars == <<"A","B","C","D","E","F","G","H","I","J","K","L","M",
                "N","O","P","Q","R","S","T","U","V","W","X","Y","Z">>
LowerChars == <<"a","b","c","d","e","f","g","h","i","j","k","l","m",
                "n","o","p","q","r","s","t","u","v","w","x","y","z">>
LowerChar(c) ==
  IF \E i \in DOMAIN UpperChars : UpperChars[i] = c
  THEN LowerChars[CHOOSE i \in DOMAIN UpperChars : UpperChars[i] = c]
  ELSE c
Lower(s) == [i \in DOMAIN s |-> LowerChar(s[i])]

(***************************************************************************)
(* Record Loader: normalize_json_records, ensure_dict.  A result is        *)
(* [ok, recs]; ok = FALSE stands for the ValueError the code raises.       *)
(***************************************************************************)
Ok(recs) == [ok |-> TRUE, recs |-> recs]
Raised == [ok |-> FALSE, recs |-> <<>>]

\* ensure_dict returns the item when it is a dict and raises otherwise
ensure_dict(item) == IsDict(item)

\* [ensure_dict(item) for item in items]
EnsureAll(items) ==
  IF \A i \in DOMAIN items : ensure_dict(items[i])
  THEN Ok([i \in DOMAIN items |-> items[i].v])
  ELSE Raised

\* variant: any non-empty list is taken as the record set
IsRecordList_any(value) == IsList(value) /\ value.v # <<>>

\* isinstance(value, list) and value and isinstance(value[0], dict)
IsRecordList(value) == IsList(value) /\ value.v # <<>> /\ IsDict(value.v[1])

normalize_json_records(root) ==
  IF IsList(root) THEN EnsureAll(root.v)
  ELSE IF IsDict(root)
  THEN IF \E i \in DOMAIN root.v : IsRecordList(root.v[i][2])
       THEN LET i == CHOOSE i \in DOMAIN root.v :
                       /\ IsRecordList(root.v[i][2])
                       /\ \A j \in 1..(i - 1) : ~IsRecordList(root.v[j][2])
            IN EnsureAll(root.v[i][2].v)
       ELSE EnsureAll(<<root>>)
  ELSE Raised

(***************************************************************************)
(* Identifier Resolver: find_invoice_key, build_invoice_map.               *)
(***************************************************************************)
candidates == << <<"i","n","v","o","i","c","e","_","i","d">>,
                 <<"i","n","v","o","i","c","e","i","d">>,
                 <<"i","n","v","o","i","c","e">>,
                 <<"i","d">> >>
\* Python None as the value of an Optional[str]
NoKey == <<"None:NoneType">>

\* key.lower() in candidates
IsCandidate(key) == \E c \in DOMAIN candidates : candidates[c] = Lower(key)

RECURSIVE FindFrom(_, _)
FindFrom(recs, i) ==
  IF i > Len(recs) THEN NoKey
  ELSE IF \E j \in DOMAIN recs[i] : IsCandidate(recs[i][j][1])
       THEN LET j == CHOOSE j \in DOMAIN recs[i] :
                       /\ IsCandidate(recs[i][j][1])
                       /\ \A h \in 1..(j - 1) : ~IsCandidate(recs[i][h][1])
            IN recs[i][j][1]
       ELSE FindFrom(recs, i + 1)

\* variant: the first key of the first record, whether a candidate or not
find_invoice_key_anykey(recs) ==
  IF recs # <<>> /\ recs[1] # <<>> THEN recs[1][1][1] ELSE FindFrom(recs, 1)

\* variant: the candidates are tried in the order of the list over the batch
find_invoice_key_priority(recs) ==
  LET Hits(c) == {ij \in {<<i, j>> : i \in DOMAIN recs, j \in 1..4} :
                     /\ ij[2] \in DOMAIN recs[ij[1]]
                     /\ Lower(recs[ij[1]][ij[2]][1]) = candidates[c]}
  IN IF \A c \in DOMAIN candidates : Hits(c) = {} THEN NoKey
     ELSE LET c == CHOOSE c \in DOMAIN candidates :
                      Hits(c) # {} /\ \A b \in 1..(c - 1) : Hits(b) = {}
              ij == CHOOSE ij \in Hits(c) :
                      \A o \in Hits(c) : ij[1] < o[1] \/ (ij[1] = o[1] /\ ij[2] <= o[2])
          IN recs[ij[1]][ij[2]][1]

find_invoice_key(recs) == FindFrom(recs, 1)

RECURSIVE MapFrom_get(_, _, _, _), MapFrom_first(_, _, _, _)
\* variant: record.get(invoice_key) for every record, without the membership test
MapFrom_get(recs, key, i, mapping) ==
  IF i > Len(recs) THEN mapping
  ELSE MapFrom_get(recs, key, i + 1,
                   DictPut(mapping, Str(DictGet(recs[i], key, PyNone)), i))
\* variant: an identifier already in the mapping keeps its first record
MapFrom_first(recs, key, i, mapping) ==
  IF i > Len(recs) THEN mapping
  ELSE MapFrom_first(recs, key, i + 1,
                     IF /\ DictHas(recs[i], key)
                        /\ ~DictHas(mapping, Str(DictGet(recs[i], key, PyNone)))
                     THEN DictPut(mapping, Str(DictGet(recs[i], key, PyNone)), i)
                     ELSE mapping)

RECURSIVE MapFrom(_, _, _, _)
\* the loop of lines 133-135; the mapping holds the record object (its index)
MapFrom(recs, key, i, mapping) ==
  IF i > Len(recs) THEN mapping
  ELSE MapFrom(recs, key, i + 1,
               IF DictHas(recs[i], key)
               THEN DictPut(mapping, Str(DictGet(recs[i], key, PyNone)), i)
               ELSE mapping)

build_invoice_map(recs) ==
  LET key == find_invoice_key(recs)
  IN IF key = NoKey \/ key = <<>> THEN <<NoKey, <<>>>>
     ELSE <<key, MapFrom(recs, key, 1, <<>>)>>

(***************************************************************************)
(* Record Normalizer: flatten_dict.                                        *)
(***************************************************************************)
RECURSIVE FlattenFrom(_, _, _, _)
FlattenFrom(d, prefix, i, flat) ==
  IF i > Len(d) THEN flat
  ELSE LET key == d[i][1]
           value == d[i][2]
           full_key == IF prefix # <<>> THEN prefix \o <<".">> \o key ELSE key
       IN FlattenFrom(d, prefix, i + 1,
                      IF IsDict(value)
                      THEN DictUpdate(flat, FlattenFrom(value.v, full_key, 1, <<>>))
                      ELSE DictPut(flat, full_key, value))

flatten_dict(d, prefix) == FlattenFrom(d, prefix, 1, <<>>)

\* variant: the record itself is filled and returned
flat_object_alias(i) == i

\* the dict object flatten_dict returns: 0 is a new object (flat = {}),
\* i > 0 would be the record object records[i]
flat_object(i) == 0

(***************************************************************************)
(* Template Engine: render_template, the pattern {{\s*([\w\.\-]+)\s*}}     *)
(***************************************************************************)
Range(s) == {s[i] : i \in DOMAIN s}
WordChars == Range(LowerChars) \cup Range(UpperChars) \cup Range(DigitChars) \cup {"_"}
IsSpace(c) == c \in {" ", "\n", "\t"}
IsTokenChar(c) == c \in WordChars \cup {".", "-"}

RECURSIVE SkipSpace(_, _), SkipToken(_, _)
\* the position after the longest run of \s starting at i
SkipSpace(t, i) == IF i <= Len(t) /\ IsSpace(t[i]) THEN SkipSpace(t, i + 1) ELSE i
\* the position after the longest run of [\w\.\-] starting at i
SkipToken(t, i) == IF i <= Len(t) /\ IsTokenChar(t[i]) THEN SkipToken(t, i + 1) ELSE i

IsAt(t, i, c) == i <= Len(t) /\ t[i] = c

\* the match of the pattern that starts at i: [found, key, next]
MatchAt(t, i) ==
  LET j == SkipSpace(t, i + 2)
      k == SkipToken(t, j)
      m == SkipSpace(t, k)
  IN IF /\ IsAt(t, i, "{") /\ IsAt(t, i + 1, "{")
        /\ k > j
        /\ IsAt(t, m, "}") /\ IsAt(t, m + 1, "}")
     THEN [found |-> TRUE, key |-> SubSeq(t, j, k - 1), next |-> m + 2]
     ELSE [found |-> FALSE, key |-> <<>>, next |-> i + 1]

\* variant: a token that is not a key keeps its placeholder
replace_keep(ctx, key) ==
  IF DictHas(ctx, key) THEN Str(DictGet(ctx, key, S(<<>>)))
  ELSE <<"{", "{">> \o key \o <<"}", "}">>

\* replace(match): str(context.get(key, ""))
replace(ctx, key) == Str(DictGet(ctx, key, S(<<>>)))

RECURSIVE SubFrom(_, _, _)
\* pattern.sub: leftmost matches, left to right, the result is not rescanned
SubFrom(t, ctx, i) ==
  IF i > Len(t) THEN <<>>
  ELSE LET m == MatchAt(t, i)
       IN IF m.found THEN replace(ctx, m.key) \o SubFrom(t, ctx, m.next)
          ELSE <<t[i]>> \o SubFrom(t, ctx, i + 1)

render_template(template_str, ctx) == SubFrom(template_str, ctx, 1)

(***************************************************************************)
(* Collaborators and literals of main.                                     *)
(***************************************************************************)
DataUriPrefix == "data:image/png;base64,"
\* the image encoder is an external pure function of the payload; the
\* payload's characters stand for the encoded image bytes
make_qr_base64(payload) == <<DataUriPrefix>> \o payload

PageBreakDiv == "<div style=\"page-break-after: always;\"></div>"
PageBreak == <<"\n", PageBreakDiv>>
Separator == <<"\n">>
ALL == <<"_","_","A","L","L","_","_">>

RECURSIVE Join(_, _)
\* sep.join(parts)
Join(sep, parts) ==
  IF parts = <<>> THEN <<>>
  ELSE IF Len(parts) = 1 THEN parts[1]
  ELSE parts[1] \o sep \o Join(sep, Tail(parts))

(***************************************************************************)
(* Inputs of the checked runs.                                             *)
(***************************************************************************)
K_id == <<"i","d">>
K_ID == <<"I","D">>
K_invoice == <<"i","n","v","o","i","c","e">>
K_total == <<"t","o","t","a","l">>
K_customer_name == <<"c","u","s","t","o","m","e","r","_","n","a","m","e">>
K_customer == <<"c","u","s","t","o","m","e","r">>
K_addr == <<"a","d","d","r">>
K_city == <<"c","i","t","y">>
K_qr_src == <<"q","r","_","s","r","c">>
K_invoice_id == candidates[1]

RecordUniverse ==
  { << <<K_id, S(<<"A">>)>>, <<K_total, I(10)>>, <<K_customer_name, S(<<"X">>)>> >>,
    << <<K_id, S(<<"A">>)>>, <<K_total, I(20)>>, <<K_customer, S(<<"Y">>)>> >>,
    << <<K_id, I(1)>> >>,
    << <<K_id, S(<<"1">>)>>, <<K_addr, D(<< <<K_city, S(<<"M">>)>> >>)>> >>,
    << <<K_ID, S(<<"B">>)>> >>,
    << <<K_invoice, S(<<"C">>)>>, <<K_id, S(<<"D">>)>> >>,
    << <<K_total, I(5)>> >>,
    << <<K_id, S(ALL)>> >> }

Batches == UNION {[1..n -> RecordUniverse] : n \in 0..MaxRecords}

Ph(key) == <<"{", "{">> \o key \o <<"}", "}">>
Templates ==
  { Ph(K_id) \o <<" ">> \o Ph(K_total) \o <<" ">> \o Ph(K_qr_src),
    <<"{", "{", " ">> \o K_addr \o <<".">> \o K_city \o <<" ", "}", "}">> \o Ph(K_customer) \o <<"!">> }

(***************************************************************************)
(* main(): lines 244-284.  The run starts with a data file and a template  *)
(* chosen (lines 226-242).                                                 *)
(***************************************************************************)
Init ==
  /\ pc = "load"
  /\ data = PyNone
  /\ records = <<>>
  /\ loaded = <<>>
  /\ template_text = <<>>
  /\ tpl_parts = <<>>
  /\ invoice_key = NoKey
  /\ invoice_map = <<>>
  /\ built = <<>>
  /\ invoice_ids = <<>>
  /\ choice = 0
  /\ chosen_id = <<>>
  /\ records_to_render = <<>>
  /\ idx = 0
  /\ context = <<>>
  /\ rendered_parts = <<>>
  /\ rendered_html = <<>>
  /\ log = <<>>
  /\ error = ""

\* line 244: records = load_records(selected_data)
LoadRecords ==
  /\ pc = "load"
  /\ \E batch \in Batches, tpl \in Templates :
       LET root == L([i \in DOMAIN batch |-> D(batch[i])])
           r == normalize_json_records(root)
       IN /\ data' = root
          /\ template_text' = tpl
          /\ records' = r.recs
          /\ loaded' = r.recs
          /\ pc' = IF r.ok THEN "build" ELSE "failed"
          /\ error' = IF r.ok THEN "" ELSE "ValueError"
  /\ UNCHANGED <<tpl_parts, invoice_key, invoice_map, built, invoice_ids, choice,
                 chosen_id, records_to_render, idx, context, rendered_parts,
                 rendered_html, log>>

\* lines 245-250
BuildMap ==
  /\ pc = "build"
  /\ LET r == build_invoice_map(records)
     IN /\ invoice_key' = r[1]
        /\ invoice_map' = r[2]
        /\ built' = r[2]
        /\ IF r[2] = <<>>
           THEN /\ pc' = "aborted"
                /\ invoice_ids' = invoice_ids
           ELSE /\ pc' = "choose"
                /\ invoice_ids' = DictKeys(r[2])
  /\ UNCHANGED <<data, records, loaded, template_text, tpl_parts, choice, chosen_id,
                 records_to_render, idx, context, rendered_parts, rendered_html,
                 log, error>>

\* line 253: choose_invoice; an answer that is not a number of the list is
\* asked again and changes nothing
ChooseInvoice ==
  /\ pc = "choose"
  /\ \E num \in 0..Len(invoice_ids) :
       /\ choice' = num
       /\ chosen_id' = IF num = 0 THEN ALL ELSE invoice_ids[num]
  /\ log' = Append(log, "prompt")
  /\ pc' = "select"
  /\ UNCHANGED <<data, records, loaded, template_text, tpl_parts, invoice_key,
                 invoice_map, built, invoice_ids, records_to_render, idx, context,
                 rendered_parts, rendered_html, error>>

\* lines 255-261
SelectRecords ==
  /\ pc = "select"
  /\ IF chosen_id = ALL
     THEN /\ records_to_render' = [i \in DOMAIN invoice_ids |-> DictGet(invoice_map, invoice_ids[i], 0)]
          /\ pc' = "render"
          /\ error' = error
     ELSE IF DictHas(invoice_map, chosen_id)
     THEN /\ records_to_render' = <<DictGet(invoice_map, chosen_id, 0)>>
          /\ pc' = "render"
          /\ error' = error
     ELSE /\ records_to_render' = records_to_render
          /\ pc' = "failed"
          /\ error' = "KeyError"
  /\ idx' = 0
  /\ rendered_parts' = <<>>
  /\ UNCHANGED <<data, records, loaded, template_text, tpl_parts, invoice_key,
                 invoice_map, built, invoice_ids, choice, chosen_id, context,
                 rendered_html, log>>

\* lines 264-268: the scannable-code payload of one record
qr_payload(rec, key) ==
  <<"i","n","v","o","i","c","e",":">>
    \o Str(DictGet(rec, IF key # NoKey /\ key # <<>> THEN key ELSE K_invoice_id, PyNone))
    \o <<";","t","o","t","a","l",":">>
    \o Str(DictGet(rec, K_total, PyNone))
    \o <<";","c","u","s","t","o","m","e","r",":">>
    \o Str(PyOr(PyOr(DictGet(rec, K_customer_name, PyNone),
                     DictGet(rec, K_customer, PyNone)), S(<<>>)))

\* lines 263-269: the RenderContext of one record
render_context(rec, key) ==
  DictPut(flatten_dict(rec, <<>>), K_qr_src, S(make_qr_base64(qr_payload(rec, key))))

\* variant: a marker after every fragment
needs_page_break_all(i, n) == i < n

\* line 271: idx < len(records_to_render) - 1
needs_page_break(i, n) == i < n - 1

\* lines 262-273: one turn of the loop
RenderStep ==
  /\ pc = "render"
  /\ idx < Len(records_to_render)
  /\ LET r == records_to_render[idx + 1]
         obj == flat_object(r)
         ctx == render_context(records[r], invoice_key)
         rendered == render_template(template_text, ctx)
     IN /\ context' = ctx
        /\ records' = IF obj = 0 THEN records ELSE [records EXCEPT ![obj] = ctx]
        /\ rendered_parts' =
             Append(rendered_parts,
                    IF needs_page_break(idx, Len(records_to_render))
                    THEN rendered \o PageBreak
                    ELSE rendered)
        /\ log' = log \o <<"qr", "template">>
  /\ idx' = idx + 1
  /\ UNCHANGED <<pc, data, loaded, template_text, tpl_parts, invoice_key, invoice_map,
                 built, invoice_ids, choice, chosen_id, records_to_render,
                 rendered_html, error>>

\* lines 275-284
GeneratePdf ==
  /\ pc = "render"
  /\ idx = Len(records_to_render)
  /\ rendered_html' = Join(Separator, rendered_parts)
  /\ log' = log \o <<"pdf", "open">>
  /\ pc' = "done"
  /\ UNCHANGED <<data, records, loaded, template_text, tpl_parts, invoice_key,
                 invoice_map, built, invoice_ids, choice, chosen_id,
                 records_to_render, idx, context, rendered_parts, error>>

Next == LoadRecords \/ BuildMap \/ ChooseInvoice \/ SelectRecords \/ RenderStep \/ GeneratePdf

Spec == Init /\ [][Next]_vars

(***************************************************************************)
(* Properties of the run of main (specification Spec).                     *)
(***************************************************************************)
AfterBuild == pc \in {"aborted", "choose", "select", "render", "done"}
HasCandidate(rec) == \E j \in DOMAIN rec : Lower(rec[j][1]) \in Range(candidates)
NoCandidateAnywhere == \A i \in DOMAIN records : ~HasCandidate(records[i])
IdOf(i) == Str(DictGet(records[i], invoice_key, PyNone))
Holders == {i \in DOMAIN records : DictHas(records[i], invoice_key)}
SameId(i) == {j \in Holders : IdOf(j) = IdOf(i)}
LastOf(set) == CHOOSE j \in set : \A h \in set : h <= j
Entries(id) == {e \in DOMAIN invoice_map : invoice_map[e][1] = id}

\* C1: when no record of the batch has a candidate key, build_invoice_map
\* yields no identifier key and an empty InvoiceMap, and the run is over
\* without a selection prompt, a code encoding, a template rendering or a
\* call of the document renderer.
Thm_C1 ==
  (AfterBuild /\ NoCandidateAnywhere) =>
     /\ invoice_key = NoKey
     /\ invoice_map = <<>>
     /\ pc = "aborted"
     /\ log = <<>>
Wit_C1 == pc = "aborted" /\ Len(records) >= 2 /\ NoCandidateAnywhere

\* C2 (as stated): every record that has the identifier field is itself an
\* entry of the InvoiceMap under its stringified identifier, and every record
\* without the field is absent.
CE_C2 ==
  (AfterBuild /\ invoice_key # NoKey) =>
     \A i \in DOMAIN records :
        IF DictHas(records[i], invoice_key)
        THEN \E e \in DOMAIN invoice_map : invoice_map[e] = <<IdOf(i), i>>
        ELSE \A e \in DOMAIN invoice_map : invoice_map[e][2] # i

\* C2 (amended): every record that has the identifier field has its
\* stringified identifier as a key of the InvoiceMap, whose entry is the last
\* record of the input with that stringified identifier; every record without
\* the field is absent.
Thm_C2 ==
  (AfterBuild /\ invoice_key # NoKey) =>
     \A i \in DOMAIN records :
        IF DictHas(records[i], invoice_key)
        THEN \E e \in DOMAIN invoice_map : invoice_map[e] = <<IdOf(i), LastOf(SameId(i))>>
        ELSE \A e \in DOMAIN invoice_map : invoice_map[e][2] # i
Wit_C2 ==
  /\ AfterBuild /\ invoice_key # NoKey
  /\ \E i \in Holders : SameId(i) # {i}
  /\ Holders # DOMAIN records

\* C3: identifiers with one stringified form share exactly one InvoiceMap
\* entry, and it holds the last of their records in input order.
Thm_C3 ==
  AfterBuild =>
     \A i \in Holders, j \in Holders :
        (i < j /\ IdOf(i) = IdOf(j)) =>
           /\ Cardinality(Entries(IdOf(i))) = 1
           /\ \A e \in Entries(IdOf(i)) :
                 /\ invoice_map[e][2] = LastOf(SameId(i))
                 /\ invoice_map[e][2] >= j
Wit_C3 ==
  /\ AfterBuild
  /\ \E i \in Holders, j \in Holders :
        /\ i < j /\ IdOf(i) = IdOf(j)
        /\ records[i] # records[j]
        /\ DictGet(records[i], invoice_key, PyNone) # DictGet(records[j], invoice_key, PyNone)

\* C4: the identifier key is the first candidate key, in key order, of the
\* first record that has any candidate key, whatever the candidates' order;
\* the InvoiceMap holds exactly the records that have that literal key.
Thm_C4 ==
  (AfterBuild /\ ~NoCandidateAnywhere) =>
     LET f == CHOOSE i \in DOMAIN records :
                 /\ HasCandidate(records[i])
                 /\ \A h \in 1..(i - 1) : ~HasCandidate(records[h])
     IN /\ \E j \in DOMAIN records[f] :
              /\ records[f][j][1] = invoice_key
              /\ Lower(invoice_key) \in Range(candidates)
              /\ \A h \in 1..(j - 1) : Lower(records[f][h][1]) \notin Range(candidates)
        /\ {invoice_map[e][2] : e \in DOMAIN invoice_map}
             = {LastOf(SameId(i)) : i \in Holders}
        /\ \A i \in DOMAIN records :
              ~DictHas(records[i], invoice_key) =>
                 \A e \in DOMAIN invoice_map : invoice_map[e][2] # i
Wit_C4 ==
  /\ AfterBuild
  /\ invoice_key = K_id
  /\ \E i \in DOMAIN records : i > 1 /\ DictHas(records[i], K_invoice)
  /\ \E i \in DOMAIN records : HasCandidate(records[i]) /\ i \notin Holders

\* C5: in single-identifier mode the selected identifier's record, and only
\* it, is rendered.
CE_C5 ==
  (pc \in {"render", "done"} /\ choice >= 1) =>
     /\ records_to_render = <<DictGet(invoice_map, invoice_ids[choice], 0)>>
     /\ (pc = "done" => Len(rendered_parts) = 1)

RECURSIVE Offset(_, _), CountOf(_, _)
\* the position of part i in the joined parts
Offset(parts, i) == IF i = 1 THEN 1 ELSE Offset(parts, i - 1) + Len(parts[i - 1]) + 1
CountOf(c, s) == IF s = <<>> THEN 0 ELSE (IF Head(s) = c THEN 1 ELSE 0) + CountOf(c, Tail(s))
Fragment(e) ==
  render_template(template_text, render_context(records[invoice_map[e][2]], invoice_key))

\* C6: in "all" mode the combined markup is made of one fragment per
\* InvoiceMap entry, in insertion order, a page-break marker after each
\* fragment but the last, and one separator between consecutive fragments.
Thm_C6 ==
  (pc = "done" /\ chosen_id = ALL) =>
     LET n == Len(invoice_map)
     IN /\ Len(rendered_parts) = n
        /\ \A e \in 1..n :
              /\ rendered_parts[e] = Fragment(e) \o (IF e < n THEN PageBreak ELSE <<>>)
              /\ SubSeq(rendered_html, Offset(rendered_parts, e),
                        Offset(rendered_parts, e) + Len(rendered_parts[e]) - 1)
                   = rendered_parts[e]
              /\ e < n => rendered_html[Offset(rendered_parts, e) + Len(rendered_parts[e])] = "\n"
        /\ Len(rendered_html) = Offset(rendered_parts, n) + Len(rendered_parts[n]) - 1
        /\ CountOf(PageBreakDiv, rendered_html) = n - 1
Wit_C6 ==
  /\ pc = "done" /\ choice = 0 /\ chosen_id = ALL
  /\ Len(invoice_map) = 3
  /\ CountOf(PageBreakDiv, rendered_html) = 2

\* C10: rendering leaves the records and the InvoiceMap as they were loaded
\* and built; qr_src is a key of the render context only.
Thm_C10 ==
  (pc \in {"render", "done"}) =>
     /\ records = loaded
     /\ invoice_map = built
     /\ invoice_ids = DictKeys(built)
     /\ \A i \in DOMAIN records : ~DictHas(records[i], K_qr_src)
     /\ idx > 0 => DictHas(context, K_qr_src)
Wit_C10 ==
  /\ pc = "done"
  /\ Len(rendered_parts) >= 2
  /\ DictHas(context, K_qr_src)
  /\ \E i \in DOMAIN records : \E j \in DOMAIN records[i] : IsDict(records[i][j][2])

(***************************************************************************)
(* normalize_json_records on its own (specification SpecJson).             *)
(***************************************************************************)
InjectiveSeqs(set, n) == {q \in [1..n -> set] : \A i \in 1..n, j \in 1..n : q[i] = q[j] => i = j}

B1 == << <<K_id, S(<<"B", "1">>)>> >>
B2 == << <<K_id, S(<<"B", "2">>)>> >>
JsonValues ==
  { S(<<"s">>), D(<<>>), D(B1), L(<<>>), L(<<D(B1)>>), L(<<D(B1), D(B2)>>),
    L(<<D(B1), I(5)>>), L(<<I(5), D(B1)>>), L(<<I(5)>>) }
RootKeys == { <<"m","e","t","a">>, <<"r","o","w","s">>, <<"x">> }
DictRoots ==
  UNION { { D([i \in 1..n |-> <<ks[i], vs[i]>>]) :
              ks \in InjectiveSeqs(RootKeys, n), vs \in [1..n -> JsonValues] } :
          n \in 0..MaxRootKeys }
JsonRoots == DictRoots \cup JsonValues \cup {I(5), PyNone}

InitJson ==
  /\ pc = "json"
  /\ \E root \in JsonRoots :
       /\ data = root
       /\ records = <<>>
       /\ loaded = <<>>
       /\ template_text = <<>>
       /\ tpl_parts = <<>>
       /\ invoice_key = NoKey
       /\ invoice_map = <<>>
       /\ built = <<>>
       /\ invoice_ids = <<>>
       /\ choice = 0
       /\ chosen_id = <<>>
       /\ records_to_render = <<>>
       /\ idx = 0
       /\ context = <<>>
       /\ rendered_parts = <<>>
       /\ rendered_html = <<>>
       /\ log = <<>>
       /\ error = ""

\* lines 95-96 of load_records: return normalize_json_records(data)
NormalizeJson ==
  /\ pc = "json"
  /\ LET r == normalize_json_records(data)
     IN /\ records' = r.recs
        /\ loaded' = r.recs
        /\ error' = IF r.ok THEN "" ELSE "ValueError"
        /\ pc' = IF r.ok THEN "json_done" ELSE "json_failed"
  /\ UNCHANGED <<data, template_text, tpl_parts, invoice_key, invoice_map, built,
                 invoice_ids, choice, chosen_id, records_to_render, idx, context,
                 rendered_parts, rendered_html, log>>

NextJson == NormalizeJson

SpecJson == InitJson /\ [][NextJson]_vars

JsonReturned == pc \in {"json_done", "json_failed"}
RootValue(i) == data.v[i][2]
AllObjects(value) == \A i \in DOMAIN value.v : value.v[i].t = "dict"
SequenceOfObjects(value) == value.t = "list" /\ value.v # <<>> /\ AllObjects(value)
StartsWithObject(value) == value.t = "list" /\ Len(value.v) >= 1 /\ value.v[1].t = "dict"
FirstWhere(P(_)) == CHOOSE i \in DOMAIN data.v : P(RootValue(i)) /\ \A j \in 1..(i - 1) : ~P(RootValue(j))
Elements(value) == [i \in DOMAIN value.v |-> value.v[i].v]

\* C8 (as stated): for an object root the records are the elements of the
\* first value that is a sequence of objects, and the root itself as one
\* record when no value is a sequence of objects.
CE_C8 ==
  (JsonReturned /\ data.t = "dict") =>
     /\ error = ""
     /\ IF \E i \in DOMAIN data.v : SequenceOfObjects(RootValue(i))
        THEN records = Elements(RootValue(FirstWhere(SequenceOfObjects)))
        ELSE records = <<data.v>>

\* C8 (amended): for an object root the record set is taken from the first
\* value that is a non-empty sequence whose first element is an object: its
\* elements when all of them are objects, a schema error otherwise; the root
\* itself is the one record when no value is such a sequence.
Thm_C8 ==
  (JsonReturned /\ data.t = "dict") =>
     IF \E i \in DOMAIN data.v : StartsWithObject(RootValue(i))
     THEN LET value == RootValue(FirstWhere(StartsWithObject))
          IN IF AllObjects(value)
             THEN error = "" /\ records = Elements(value)
             ELSE error = "ValueError" /\ records = <<>>
     ELSE error = "" /\ records = <<data.v>>
Wit_C8 ==
  /\ pc = "json_done" /\ data.t = "dict"
  /\ Len(data.v) = 2
  /\ RootValue(1).t = "list" /\ ~StartsWithObject(RootValue(1))
  /\ records = <<B1, B2>>

(***************************************************************************)
(* flatten_dict on its own (specification SpecFlatten).                    *)
(***************************************************************************)
FieldNames == { <<"a">>, <<"b">>, <<"a", ".", "b">>, <<>> }
FieldValues ==
  { I(1), I(2), L(<<I(3)>>), D(<<>>),
    D(<< <<<<"b">>, I(3)>> >>),
    D(<< <<<<>>, I(4)>> >>),
    D(<< <<<<"b">>, D(<< <<<<"c">>, I(5)>> >>)>> >>) }
FlattenInputs ==
  UNION { { [i \in 1..n |-> <<ks[i], vs[i]>>] :
              ks \in InjectiveSeqs(FieldNames, n), vs \in [1..n -> FieldValues] } :
          n \in 0..MaxWidth }

InitFlatten ==
  /\ pc = "flatten"
  /\ \E rec \in FlattenInputs :
       /\ records = <<rec>>
       /\ loaded = <<rec>>
       /\ data = PyNone
       /\ template_text = <<>>
       /\ tpl_parts = <<>>
       /\ invoice_key = NoKey
       /\ invoice_map = <<>>
       /\ built = <<>>
       /\ invoice_ids = <<>>
       /\ choice = 0
       /\ chosen_id = <<>>
       /\ records_to_render = <<>>
       /\ idx = 0
       /\ context = <<>>
       /\ rendered_parts = <<>>
       /\ rendered_html = <<>>
       /\ log = <<>>
       /\ error = ""

\* line 263: context = flatten_dict(rec)
Flatten ==
  /\ pc = "flatten"
  /\ context' = flatten_dict(records[1], <<>>)
  /\ pc' = "flattened"
  /\ UNCHANGED <<data, records, loaded, template_text, tpl_parts, invoice_key,
                 invoice_map, built, invoice_ids, choice, chosen_id,
                 records_to_render, idx, rendered_parts, rendered_html, log, error>>

NextFlatten == Flatten

SpecFlatten == InitFlatten /\ [][NextFlatten]_vars

Missing == [t |-> "missing", v |-> 0]
RECURSIVE LeafPaths(_), SplitAt(_, _, _), Follow(_, _)
\* the key paths of the values of d that are not mappings
LeafPaths(d) ==
  UNION { IF d[i][2].t = "dict"
          THEN { <<d[i][1]>> \o q : q \in LeafPaths(d[i][2].v) }
          ELSE { <<d[i][1]>> } : i \in DOMAIN d }
\* s.split(sep), cur being the component read so far
SplitAt(s, sep, cur) ==
  IF s = <<>> THEN <<cur>>
  ELSE IF Head(s) = sep THEN <<cur>> \o SplitAt(Tail(s), sep, <<>>)
  ELSE SplitAt(Tail(s), sep, Append(cur, Head(s)))
\* d[path[1]][path[2]]...
Follow(d, path) ==
  IF ~DictHas(d, Head(path)) THEN Missing
  ELSE LET x == DictGet(d, Head(path), Missing)
       IN IF Len(path) = 1 THEN x
          ELSE IF x.t = "dict" THEN Follow(x.v, Tail(path))
          ELSE Missing

\* C9: the flat record has one distinct key per leaf of the record, and the
\* components of a flat key, followed from the root, reach the leaf value
\* stored under it.
CE_C9 ==
  pc = "flattened" =>
     /\ Cardinality(Range(DictKeys(context))) = Cardinality(LeafPaths(records[1]))
     /\ Len(context) = Cardinality(LeafPaths(records[1]))
     /\ \A e \in DOMAIN context :
           /\ context[e][2].t # "dict"
           /\ Follow(records[1], SplitAt(context[e][1], ".", <<>>)) = context[e][2]

(***************************************************************************)
(* render_template on its own (specification SpecTemplate).  A template is *)
(* put together from pieces: plain text, placeholders and loose braces.    *)
(***************************************************************************)
K_a == <<"a">>
K_b == <<"b">>
K_cd == <<"c", ".", "d", "-", "1">>
TextPiece(text) == [kind |-> "text", key |-> <<>>, text |-> text]
PlaceholderPiece(key, text) == [kind |-> "ph", key |-> key, text |-> text]
BracePiece(text) == [kind |-> "brace", key |-> <<>>, text |-> text]
Pieces ==
  { TextPiece(<<"x">>), TextPiece(<<" ">>),
    PlaceholderPiece(K_a, <<"{", "{">> \o K_a \o <<"}", "}">>),
    PlaceholderPiece(K_b, <<"{", "{", " ">> \o K_b \o <<" ", "}", "}">>),
    PlaceholderPiece(K_cd, <<"{", "{">> \o K_cd \o <<"\n", "}", "}">>),
    BracePiece(<<"{">>), BracePiece(<<"{", "{">>), BracePiece(<<"}", "}">>) }
Absent == [t |-> "absent", v |-> 0]
Entry(key, x) == IF x = Absent THEN <<>> ELSE << <<key, x>> >>
Contexts ==
  { Entry(K_a, x) \o Entry(K_b, y) \o Entry(K_cd, z) :
      x \in {Absent, S(<<"v">>), I(7), S(<<"{", "{", " ">> \o K_b \o <<" ", "}", "}">>)},
      y \in {Absent, S(<<"w">>)},
      z \in {Absent, PyNone} }
RECURSIVE TextOf(_)
TextOf(parts) == IF parts = <<>> THEN <<>> ELSE Head(parts).text \o TextOf(Tail(parts))

InitTemplate ==
  /\ pc = "template"
  /\ \E n \in 0..MaxParts : \E parts \in [1..n -> Pieces] : \E ctx \in Contexts :
       /\ tpl_parts = parts
       /\ template_text = TextOf(parts)
       /\ context = ctx
       /\ data = PyNone
       /\ records = <<>>
       /\ loaded = <<>>
       /\ invoice_key = NoKey
       /\ invoice_map = <<>>
       /\ built = <<>>
       /\ invoice_ids = <<>>
       /\ choice = 0
       /\ chosen_id = <<>>
       /\ records_to_render = <<>>
       /\ idx = 0
       /\ rendered_parts = <<>>
       /\ rendered_html = <<>>
       /\ log = <<>>
       /\ error = ""

\* line 270: rendered = render_template(template_text, context)
Render ==
  /\ pc = "template"
  /\ rendered_html' = render_template(template_text, context)
  /\ pc' = "rendered"
  /\ UNCHANGED <<data, records, loaded, template_text, tpl_parts, invoice_key,
                 invoice_map, built, invoice_ids, choice, chosen_id,
                 records_to_render, idx, context, rendered_parts, log, error>>

NextTemplate == Render

SpecTemplate == InitTemplate /\ [][NextTemplate]_vars

Contains(s, sub) ==
  \E i \in 1..(Len(s) - Len(sub) + 1) : SubSeq(s, i, i + Len(sub) - 1) = sub
IsBrace(c) == c \in {"{", "}"}
BraceFree(s) == \A i \in DOMAIN s : ~IsBrace(s[i])
ValueOf(key) == context[CHOOSE e \in DOMAIN context : context[e][1] = key][2]
IsKey(key) == \E e \in DOMAIN context : context[e][1] = key
PlainTemplate ==
  /\ \A i \in DOMAIN tpl_parts : tpl_parts[i].kind # "brace"
  /\ \A e \in DOMAIN context : BraceFree(Str(context[e][2]))
RECURSIVE Expected(_)
\* the pieces of the template, each placeholder replaced
Expected(parts) ==
  IF parts = <<>> THEN <<>>
  ELSE (CASE Head(parts).kind = "ph" ->
               IF IsKey(Head(parts).key) THEN Str(ValueOf(Head(parts).key)) ELSE <<>>
          [] OTHER -> Head(parts).text)
       \o Expected(Tail(parts))

\* C7 (as stated): the output never contains the text of a placeholder whose
\* token is not a key of the context, and a placeholder whose token is a key
\* is replaced by the string form of its value.
CE_C7 ==
  pc = "rendered" =>
     \A i \in DOMAIN tpl_parts :
        tpl_parts[i].kind = "ph" =>
           IF IsKey(tpl_parts[i].key)
           THEN Contains(rendered_html, Str(ValueOf(tpl_parts[i].key)))
           ELSE ~Contains(rendered_html, tpl_parts[i].text)

\* C7 (amended): when neither the template text outside the placeholders nor
\* a value of the context contains a brace, the output is the template with
\* each placeholder replaced by the string form of its token's value, or by
\* the empty string when the token is not a key, and contains no placeholder.
Thm_C7 ==
  (pc = "rendered" /\ PlainTemplate) =>
     /\ rendered_html = Expected(tpl_parts)
     /\ BraceFree(rendered_html)
     /\ \A i \in DOMAIN tpl_parts :
           (tpl_parts[i].kind = "ph" /\ ~IsKey(tpl_parts[i].key)) =>
              ~Contains(rendered_html, tpl_parts[i].text)
Wit_C7 ==
  /\ pc = "rendered" /\ PlainTemplate
  /\ Len(tpl_parts) = 3
  /\ \E i \in DOMAIN tpl_parts : tpl_parts[i].kind = "ph" /\ ~IsKey(tpl_parts[i].key)
  /\ \E i \in DOMAIN tpl_parts :
        /\ tpl_parts[i].kind = "ph" /\ IsKey(tpl_parts[i].key)
        /\ ValueOf(tpl_parts[i].key).t # "str"
  /\ rendered_html # <<>>

====
